---- MODULE Spec2Model ----
(***************************************************************************)
(* Model of the kubewarden policy                                          *)
(* do-not-expose-admission-controller-webhook-services-policy:            *)
(*   service_finder.rs  extraction of ServiceDetails from resources        *)
(*   check.rs           find_webhook_services_exposed and its two helpers  *)
(*   lib.rs             validate                                           *)
(*                                                                         *)
(* Option<T> is modelled as a sequence: None is <<>>, Some(x) is <<x>>.    *)
(* HashSet<T> is a set, Vec<T> a sequence, HashMap<K, V> a function.       *)
(***************************************************************************)
EXTENDS Integers, Sequences, FiniteSets, TLC

None == <<>>

Some(x) == <<x>>

IsSome(o) == o # <<>>

\* Option::unwrap / the value bound by `if let Some(v) = o`
Unwrap(o) == o[1]

\* faulty variant: an absent string stands for the namespace "a"
UnwrapOrDefault_NamespaceA(o) == IF o = <<>> THEN "a" ELSE o[1]

\* Option<String>::unwrap_or_default
UnwrapOrDefault(o) == IF o = <<>> THEN "" ELSE o[1]

(***************************************************************************)
(* Bounds and value domains of the model                                   *)
(***************************************************************************)
\* webhook entries in the configuration under review
MaxWebhooks == 2

\* Ingress and Service objects the cluster returns in one evaluation
MaxResources == 2

\* HTTP rules of one Ingress
MaxRules == 2

\* paths of one Ingress, over all its rules
MaxPaths == 2

\* declared ports of one Service
MaxPorts == 2

Namespaces == {"a", "b"}

Names == {"s", "t"}

Ports == {80, 81}

\* Seq(S) restricted to length <= n
SeqUpTo(S, n) == UNION {[1..k -> S] : k \in 0..n}

OptionOf(S) == {None} \cup {Some(x) : x \in S}

(***************************************************************************)
(* service_details.rs : ServiceDetails {namespace, name, port_number}      *)
(***************************************************************************)
ServiceDetails(namespace, name, port_number) ==
    [namespace |-> namespace, name |-> name, port_number |-> port_number]

\* ServiceDetails::from_service_backend(namespace, &IngressServiceBackend)
from_service_backend(namespace, service_backend) ==
    ServiceDetails(namespace,
                   service_backend.name,
                   IF service_backend.port = None
                     THEN None
                     ELSE Unwrap(service_backend.port).number)

\* impl From<&ServiceReference> for ServiceDetails
from_service_reference(svc) ==
    ServiceDetails(svc.namespace, svc.name, svc.port)

(***************************************************************************)
(* service_finder.rs : ServiceFinder::get_services per resource kind       *)
(***************************************************************************)
\* faulty variant: the port of the service reference is dropped
WebhookServices_NoPort(webhooks) ==
    {ServiceDetails(Unwrap(webhooks[i].client_config.service).namespace,
                    Unwrap(webhooks[i].client_config.service).name,
                    None) :
        i \in {j \in 1..Len(webhooks) : IsSome(webhooks[j].client_config.service)}}

\* filter_map over the webhooks of a (Validating|Mutating)WebhookConfiguration
WebhookServices(webhooks) ==
    {from_service_reference(Unwrap(webhooks[i].client_config.service)) :
        i \in {j \in 1..Len(webhooks) : IsSome(webhooks[j].client_config.service)}}

ValidatingWebhookConfiguration_get_services(cfg) ==
    IF cfg.webhooks = None THEN {} ELSE WebhookServices(Unwrap(cfg.webhooks))

MutatingWebhookConfiguration_get_services(cfg) ==
    IF cfg.webhooks = None THEN {} ELSE WebhookServices(Unwrap(cfg.webhooks))

\* the backend services of one IngressRule (service_finder.rs:77-86)
RuleBackends(rule) ==
    IF rule.http = None
      THEN <<>>
      ELSE LET paths == Unwrap(rule.http).paths
           IN  SelectSeq([i \in 1..Len(paths) |-> paths[i].backend.service], IsSome)

\* faulty variant: only the first path of every rule is read
Ingress_get_services_FirstPathOnly(ingress) ==
    IF ingress.spec = None
      THEN {}
      ELSE LET namespace == UnwrapOrDefault(ingress.metadata.namespace)
               spec      == Unwrap(ingress.spec)
               dflt      == IF IsSome(spec.default_backend)
                                 /\ IsSome(Unwrap(spec.default_backend).service)
                              THEN {from_service_backend(namespace,
                                        Unwrap(Unwrap(spec.default_backend).service))}
                              ELSE {}
           IN  IF spec.rules = None
                 THEN dflt
                 ELSE LET rules == Unwrap(spec.rules)
                      IN  dflt \cup
                          UNION {{from_service_backend(namespace,
                                      Unwrap(RuleBackends(rules[r])[k])) :
                                    k \in 1..(IF Len(RuleBackends(rules[r])) = 0
                                                THEN 0 ELSE 1)} :
                                 r \in 1..Len(rules)}

Ingress_get_services(ingress) ==
    IF ingress.spec = None
      THEN {}
      ELSE LET namespace == UnwrapOrDefault(ingress.metadata.namespace)
               spec      == Unwrap(ingress.spec)
               dflt      == IF IsSome(spec.default_backend)
                                 /\ IsSome(Unwrap(spec.default_backend).service)
                              THEN {from_service_backend(namespace,
                                        Unwrap(Unwrap(spec.default_backend).service))}
                              ELSE {}
           IN  IF spec.rules = None
                 THEN dflt
                 ELSE LET rules == Unwrap(spec.rules)
                      IN  dflt \cup
                          UNION {{from_service_backend(namespace,
                                      Unwrap(RuleBackends(rules[r])[k])) :
                                    k \in 1..Len(RuleBackends(rules[r]))} :
                                 r \in 1..Len(rules)}

\* faulty variant: the loop over the ports starts at the second port
Service_get_services_SkipFirst(service) ==
    LET namespace == UnwrapOrDefault(service.metadata.namespace)
    IN  IF IsSome(service.spec) /\ IsSome(Unwrap(service.spec).ports)
          THEN LET ports == Unwrap(Unwrap(service.spec).ports)
               IN  {ServiceDetails(namespace,
                                   UnwrapOrDefault(service.metadata.name),
                                   Some(ports[i].port)) : i \in 2..Len(ports)}
          ELSE {}

\* faulty variant: a Service without ports gives an identity without port
Service_get_services_PortlessIdentity(service) ==
    LET namespace == UnwrapOrDefault(service.metadata.namespace)
    IN  IF IsSome(service.spec) /\ IsSome(Unwrap(service.spec).ports)
                                /\ Len(Unwrap(Unwrap(service.spec).ports)) > 0
          THEN LET ports == Unwrap(Unwrap(service.spec).ports)
               IN  {ServiceDetails(namespace,
                                   UnwrapOrDefault(service.metadata.name),
                                   Some(ports[i].port)) : i \in 1..Len(ports)}
          ELSE {ServiceDetails(namespace, UnwrapOrDefault(service.metadata.name), None)}

Service_get_services(service) ==
    LET namespace == UnwrapOrDefault(service.metadata.namespace)
    IN  IF IsSome(service.spec) /\ IsSome(Unwrap(service.spec).ports)
          THEN LET ports == Unwrap(Unwrap(service.spec).ports)
               IN  {ServiceDetails(namespace,
                                   UnwrapOrDefault(service.metadata.name),
                                   Some(ports[i].port)) : i \in 1..Len(ports)}
          ELSE {}

(***************************************************************************)
(* Resources of the cluster and of the admission request                   *)
(***************************************************************************)
ObjectMeta(name, namespace) == [name |-> name, namespace |-> namespace]

\* networking/v1 ServiceBackendPort: a port number, or a port name
BackendPortNumber(n) == [name |-> None, number |-> Some(n)]

BackendPortNamed == [name |-> Some("http"), number |-> None]

IngressServiceBackend(name, port) == [name |-> name, port |-> port]

\* IngressBackend with a service (and no resource) reference
IngressBackend(service) == [service |-> service]

HTTPIngressPath(backend) == [backend |-> backend]

IngressRule(http) == [http |-> http]

IngressSpec(default_backend, rules) ==
    [default_backend |-> default_backend, rules |-> rules]

Ingress(namespace, spec) ==
    [metadata |-> ObjectMeta(None, namespace), spec |-> spec]

ServicePort(port, protocol) == [port |-> port, protocol |-> protocol]

ServiceSpec(type_, ports) == [type_ |-> type_, ports |-> ports]

Service(name, namespace, spec) ==
    [metadata |-> ObjectMeta(name, namespace), spec |-> spec]

ServiceReference(namespace, name, port) ==
    [namespace |-> namespace, name |-> name, port |-> port]

WebhookClientConfig(service) == [service |-> service]

Webhook(client_config) == [client_config |-> client_config]

ServiceTypes == {"NodePort", "LoadBalancer", "ClusterIP", "ExternalName", "nodeport"}

\* an Ingress whose default backend is the service `name` at `port`
IngressDefault(namespace, name, port) ==
    Ingress(namespace,
            Some(IngressSpec(Some(IngressBackend(Some(IngressServiceBackend(name, port)))),
                             None)))

\* an Ingress with one HTTP rule whose single path goes to `name` at `port`
IngressPath(namespace, name, port) ==
    Ingress(namespace,
            Some(IngressSpec(None,
                 Some(<<IngressRule(Some([paths |->
                        <<HTTPIngressPath(IngressBackend(
                            Some(IngressServiceBackend(name, port))))>>]))>>))))

\* ports declared by number only, as in the fixtures of check.rs
PortList(ps) == [i \in 1..Len(ps) |-> ServicePort(ps[i], None)]

ServiceOf(name, namespace, type_, ps) ==
    Service(Some(name), namespace, Some(ServiceSpec(type_, Some(PortList(ps)))))

(***************************************************************************)
(* The Ingress and Service objects the cluster may hold.  The webhook      *)
(* targets range over every (namespace, name, port); the cluster objects   *)
(* vary one field at a time around s:80 in namespace a.                    *)
(***************************************************************************)
ClusterIngresses ==
    {IngressDefault(Some(ns), "s", Some(BackendPortNumber(80))) : ns \in Namespaces}
      \cup {IngressDefault(None, "s", Some(BackendPortNumber(80))),
            IngressDefault(Some("a"), "t", Some(BackendPortNumber(80))),
            IngressDefault(Some("a"), "s", Some(BackendPortNumber(81))),
            IngressDefault(Some("a"), "s", Some(BackendPortNamed)),
            IngressDefault(Some("a"), "s", None),
            IngressPath(Some("a"), "s", Some(BackendPortNumber(80))),
            Ingress(Some("a"), Some(IngressSpec(None, None))),
            Ingress(Some("a"), None)}

ClusterServices ==
    {ServiceOf("s", Some(ns), Some("NodePort"), <<80>>) : ns \in Namespaces}
      \cup {ServiceOf("s", Some("a"), Some(t), <<80>>) : t \in ServiceTypes}
      \cup {ServiceOf("s", None, Some("NodePort"), <<80>>),
            ServiceOf("t", Some("a"), Some("NodePort"), <<80>>),
            ServiceOf("s", Some("a"), Some("NodePort"), <<81, 80>>),
            ServiceOf("s", Some("a"), Some("NodePort"), <<>>),
            ServiceOf("s", Some("a"), None, <<80>>),
            Service(Some("s"), Some("a"), Some(ServiceSpec(Some("NodePort"), None))),
            Service(Some("s"), Some("a"), None)}

\* clientConfig of one webhook entry: URL-based, or a service reference
ClientConfigs ==
    {WebhookClientConfig(None)}
      \cup {WebhookClientConfig(Some(ServiceReference(ns, n, p))) :
              ns \in Namespaces, n \in Names, p \in OptionOf(Ports)}

WebhookLists == SeqUpTo({Webhook(c) : c \in ClientConfigs}, MaxWebhooks)

\* the request object: undecodable, or a configuration with optional webhooks
RequestObjects ==
    {[decodable |-> FALSE, webhooks |-> None]}
      \cup {[decodable |-> TRUE, webhooks |-> w] : w \in OptionOf(WebhookLists)}

(***************************************************************************)
(* check.rs : the pure parts of the exposure detection                     *)
(***************************************************************************)
\* k8s_openapi Resource::API_VERSION / Resource::KIND
Ingress_API_VERSION == "networking.k8s.io/v1"

Ingress_KIND == "Ingress"

Service_API_VERSION == "v1"

Service_KIND == "Service"

ValidatingWebhookConfiguration_KIND == "ValidatingWebhookConfiguration"

MutatingWebhookConfiguration_KIND == "MutatingWebhookConfiguration"

ListResourcesByNamespaceRequest(namespace, api_version, kind_) ==
    [namespace |-> namespace, api_version |-> api_version, kind |-> kind_,
     label_selector |-> None, field_selector |-> None]

\* check.rs:60-67
IngressListRequest(namespace) ==
    ListResourcesByNamespaceRequest(namespace, Ingress_API_VERSION, Ingress_KIND)

\* faulty variant: the Service query keeps the apiVersion of the Ingress query
ServiceListRequest_IngressApiVersion(namespace) ==
    ListResourcesByNamespaceRequest(namespace, Ingress_API_VERSION, Service_KIND)

\* check.rs:92-99
ServiceListRequest(namespace) ==
    ListResourcesByNamespaceRequest(namespace, Service_API_VERSION, Service_KIND)

\* faulty variant: a later service of a namespace replaces the set of the namespace
GroupByNamespace_Overwrite(remaining, map) ==
    [ns \in {svc.namespace : svc \in remaining} |->
        {CHOOSE svc \in remaining : svc.namespace = ns}] @@ map

\* check.rs:23-31: fold of the services into the namespace -> set map
RECURSIVE GroupByNamespace(_, _)
GroupByNamespace(remaining, map) ==
    IF remaining = {}
      THEN map
      ELSE LET svc == CHOOSE x \in remaining : TRUE
           IN  GroupByNamespace(
                   remaining \ {svc},
                   IF svc.namespace \in DOMAIN map
                     THEN [map EXCEPT ![svc.namespace] = @ \cup {svc}]
                     ELSE (svc.namespace :> {svc}) @@ map)

\* faulty variant: the loop never advances past the namespace it visited
Unvisited_Stuck(keys, namespace) == keys

\* check.rs:36: the keys left to the iterator of the map once `namespace` is visited
Unvisited(keys, namespace) == keys \ {namespace}

EmptyMap == [ns \in {} |-> {}]

\* faulty variant: a candidate matches a target of the same name and port, whatever its
\* namespace
ExposedByIngress_IgnoreNamespace(webhook_services, items) ==
    LET svcs_exposed_by_ingresses ==
            UNION {Ingress_get_services(items[i]) : i \in 1..Len(items)}
    IN  {t \in webhook_services :
            \E c \in svcs_exposed_by_ingresses :
                c.name = t.name /\ c.port_number = t.port_number}

\* faulty variant: a backend with a named or absent port stands for every port
ExposedByIngress_ResolvesPort(webhook_services, items) ==
    LET svcs_exposed_by_ingresses ==
            UNION {Ingress_get_services(items[i]) : i \in 1..Len(items)}
    IN  {t \in webhook_services :
            \E c \in svcs_exposed_by_ingresses :
                /\ c.namespace = t.namespace
                /\ c.name = t.name
                /\ (c.port_number = t.port_number \/ c.port_number = None)}

\* check.rs:71-82: candidates of the listed Ingresses, intersected with the targets
ExposedByIngress(webhook_services, items) ==
    LET svcs_exposed_by_ingresses ==
            UNION {Ingress_get_services(items[i]) : i \in 1..Len(items)}
    IN  svcs_exposed_by_ingresses \cap webhook_services

\* faulty variant: every Service that is not of type ClusterIP counts as exposing
IsNodePortOrLoadBalancer_NotClusterIP(service) ==
    /\ IsSome(service.spec)
    /\ Unwrap(service.spec).type_ # Some("ClusterIP")

\* check.rs:106-108: the filter on spec.type
IsNodePortOrLoadBalancer(service) ==
    /\ IsSome(service.spec)
    /\ IsSome(Unwrap(service.spec).type_)
    /\ Unwrap(Unwrap(service.spec).type_) \in {"NodePort", "LoadBalancer"}

\* faulty variant: a candidate matches a target of the same namespace and name, whatever
\* its port
ExposedByNodePortLoadBalancer_IgnorePort(webhook_services, items) ==
    LET svcs_exposed ==
            UNION {Service_get_services(items[i]) :
                     i \in {j \in 1..Len(items) : IsNodePortOrLoadBalancer(items[j])}}
    IN  {t \in webhook_services :
            \E c \in svcs_exposed : c.namespace = t.namespace /\ c.name = t.name}

\* check.rs:104-120: candidates of the listed NodePort/LoadBalancer Services,
\* intersected with the targets
ExposedByNodePortLoadBalancer(webhook_services, items) ==
    LET svcs_exposed ==
            UNION {Service_get_services(items[i]) :
                     i \in {j \in 1..Len(items) : IsNodePortOrLoadBalancer(items[j])}}
    IN  svcs_exposed \cap webhook_services

(***************************************************************************)
(* lib.rs : the rejection message                                          *)
(***************************************************************************)
RECURSIVE Join(_, _)
Join(strs, sep) ==
    IF Len(strs) = 0 THEN ""
    ELSE IF Len(strs) = 1 THEN strs[1]
    ELSE strs[1] \o sep \o Join(Tail(strs), sep)

\* lib.rs:58: format!("{}/{}", svc.namespace, svc.name)
FormatService(svc) == svc.namespace \o "/" \o svc.name

\* lib.rs:56-59: the Vec collected from one iteration over the HashSet
FormatServices(order) == [i \in 1..Len(order) |-> FormatService(order[i])]

\* lib.rs:54-61
RejectMessage(parts) ==
    "Webhook service(s) exposed by Ingress, NodePort, or LoadBalancer: "
        \o Join(parts, ", ")

\* the orders in which a HashSet may be iterated
IterationOrders(set) ==
    {f \in [1..Cardinality(set) -> set] : \A x \in set : \E i \in DOMAIN f : f[i] = x}

(***************************************************************************)
(* State of one evaluation of validate (lib.rs:30-64)                      *)
(***************************************************************************)
VARIABLES
    request,                    \* the admission request: payload_ok, kind, object
    pc,                         \* position in validate / find_webhook_services_exposed
    services,                   \* lib.rs:33  the webhook targets
    webhook_svcs_by_namespace,  \* check.rs:23
    pending,                    \* keys of the map the loop of check.rs:36 has not visited
    current,                    \* the namespace of the iteration in progress
    svcs_exposed_by_ingress,    \* check.rs:37
    exposed_services_being_used,\* check.rs:34
    calls,                      \* the list queries issued so far, with the host's answers
    detection,                  \* result of find_webhook_services_exposed
    listed,                     \* lib.rs:56-59  the Vec of "namespace/name" strings
    response,                   \* what validate returns
    earlier,                    \* the outcome of an earlier evaluation of the same request
    resource,                   \* a resource handed to ServiceFinder::get_services
    extracted                   \* the HashSet<ServiceDetails> it returned

vars == <<request, pc, services, webhook_svcs_by_namespace, pending, current,
          svcs_exposed_by_ingress, exposed_services_being_used, calls, detection,
          listed, response, earlier, resource, extracted>>

WebhookKinds ==
    {ValidatingWebhookConfiguration_KIND, MutatingWebhookConfiguration_KIND}

OtherKinds == {"Pod", "Service"}

\* objects sent with a request of another kind: one that is no webhook
\* configuration, and one that would decode as a configuration with a target
OtherObjects ==
    {[decodable |-> FALSE, webhooks |-> None],
     [decodable |-> TRUE,
      webhooks |-> Some(<<Webhook(WebhookClientConfig(
                            Some(ServiceReference("a", "s", Some(80)))))>>)]}

Requests ==
    {[payload_ok |-> FALSE, kind |-> "", object |-> None]}
      \cup {[payload_ok |-> TRUE, kind |-> k, object |-> Some(o)] :
              k \in WebhookKinds, o \in RequestObjects}
      \cup {[payload_ok |-> TRUE, kind |-> k, object |-> Some(o)] :
              k \in OtherKinds, o \in OtherObjects}

NoResponse == [status |-> "none", message |-> ""]

\* kubewarden::accept_request()
accept_request == [status |-> "accept", message |-> ""]

\* kubewarden::reject_request(Some(msg), None, None, None)
reject_request(msg) == [status |-> "reject", message |-> msg]

\* validate returns Err(..)
ErrorResult == [status |-> "error", message |-> ""]

Init ==
    /\ request \in Requests
    /\ pc = "validate"
    /\ services = {}
    /\ webhook_svcs_by_namespace = EmptyMap
    /\ pending = {}
    /\ current = None
    /\ svcs_exposed_by_ingress = {}
    /\ exposed_services_being_used = {}
    /\ calls = <<>>
    /\ detection = "none"
    /\ listed = <<>>
    /\ response = NoResponse
    /\ earlier = None
    /\ resource = None
    /\ extracted = {}

\* the locals of find_webhook_services_exposed, before it runs and after it returned
DetectorIdle ==
    /\ webhook_svcs_by_namespace' = EmptyMap
    /\ pending' = {}
    /\ current' = None
    /\ svcs_exposed_by_ingress' = {}
    /\ exposed_services_being_used' = {}

\* lib.rs:31  ValidationRequest::new(payload)? fails
ValidatePayloadError ==
    /\ pc = "validate"
    /\ ~request.payload_ok
    /\ response' = ErrorResult
    /\ pc' = "done"
    /\ UNCHANGED <<earlier, resource, extracted, request, services, webhook_svcs_by_namespace, pending, current,
                   svcs_exposed_by_ingress, exposed_services_being_used, calls,
                   detection, listed>>

\* faulty variant: the default arm decodes the object like the two webhook kinds
ValidateOtherKind_Decodes ==
    /\ pc = "validate"
    /\ request.payload_ok
    /\ request.kind \notin WebhookKinds
    /\ request' = [request EXCEPT !.object = None]
    /\ response' = IF Unwrap(request.object).decodable THEN accept_request ELSE ErrorResult
    /\ pc' = "done"
    /\ UNCHANGED <<earlier, resource, extracted, services, webhook_svcs_by_namespace, pending,
                   current, svcs_exposed_by_ingress, exposed_services_being_used, calls,
                   detection, listed>>

\* lib.rs:44  any other kind
ValidateOtherKind ==
    /\ pc = "validate"
    /\ request.payload_ok
    /\ request.kind \notin WebhookKinds
    /\ response' = accept_request
    /\ pc' = "done"
    /\ UNCHANGED <<earlier, resource, extracted, request, services, webhook_svcs_by_namespace, pending, current,
                   svcs_exposed_by_ingress, exposed_services_being_used, calls,
                   detection, listed>>

\* faulty variant: an object that cannot be decoded counts as one without webhooks
ValidateDecodeError_Accepts ==
    /\ pc = "validate"
    /\ request.payload_ok
    /\ request.kind \in WebhookKinds
    /\ ~Unwrap(request.object).decodable
    /\ request' = [request EXCEPT !.object = None]
    /\ response' = accept_request
    /\ pc' = "done"
    /\ UNCHANGED <<earlier, resource, extracted, services, webhook_svcs_by_namespace,
                   pending, current, svcs_exposed_by_ingress,
                   exposed_services_being_used, calls, detection, listed>>

\* lib.rs:36 / lib.rs:41  serde_json::from_value(..)? fails; the object is consumed
ValidateDecodeError ==
    /\ pc = "validate"
    /\ request.payload_ok
    /\ request.kind \in WebhookKinds
    /\ ~Unwrap(request.object).decodable
    /\ request' = [request EXCEPT !.object = None]
    /\ response' = ErrorResult
    /\ pc' = "done"
    /\ UNCHANGED <<earlier, resource, extracted, services, webhook_svcs_by_namespace, pending, current,
                   svcs_exposed_by_ingress, exposed_services_being_used, calls,
                   detection, listed>>

\* faulty variant: namespaces queried by an earlier evaluation are not visited again
EnterDetector_SkipsQueried(svcs) ==
    /\ services' = svcs
    /\ webhook_svcs_by_namespace' = GroupByNamespace(svcs, EmptyMap)
    /\ pending' = DOMAIN GroupByNamespace(svcs, EmptyMap)
                      \ {calls[i].request.namespace : i \in DOMAIN calls}
    /\ current' = None
    /\ svcs_exposed_by_ingress' = {}
    /\ exposed_services_being_used' = {}
    /\ detection' = "running"
    /\ pc' = "ingress"

\* lib.rs:47 and check.rs:23-34: the call of find_webhook_services_exposed up to
\* its loop
EnterDetector(svcs) ==
    /\ services' = svcs
    /\ webhook_svcs_by_namespace' = GroupByNamespace(svcs, EmptyMap)
    /\ pending' = DOMAIN GroupByNamespace(svcs, EmptyMap)
    /\ current' = None
    /\ svcs_exposed_by_ingress' = {}
    /\ exposed_services_being_used' = {}
    /\ detection' = "running"
    /\ pc' = "ingress"

\* lib.rs:34-38
ValidateValidating ==
    /\ pc = "validate"
    /\ request.payload_ok
    /\ request.kind = ValidatingWebhookConfiguration_KIND
    /\ Unwrap(request.object).decodable
    /\ request' = [request EXCEPT !.object = None]
    /\ EnterDetector(ValidatingWebhookConfiguration_get_services(Unwrap(request.object)))
    /\ UNCHANGED <<earlier, resource, extracted, calls, listed, response>>

\* lib.rs:39-43
ValidateMutating ==
    /\ pc = "validate"
    /\ request.payload_ok
    /\ request.kind = MutatingWebhookConfiguration_KIND
    /\ Unwrap(request.object).decodable
    /\ request' = [request EXCEPT !.object = None]
    /\ EnterDetector(MutatingWebhookConfiguration_get_services(Unwrap(request.object)))
    /\ UNCHANGED <<earlier, resource, extracted, calls, listed, response>>

(***************************************************************************)
(* The host's answers to list_resources_by_namespace                       *)
(***************************************************************************)
RECURSIVE ItemsReturned(_)
ItemsReturned(log) ==
    IF log = <<>> THEN 0
    ELSE Len(Head(log).response.items) + ItemsReturned(Tail(log))

ListOk(items) == [ok |-> TRUE, items |-> items]

ListErr == [ok |-> FALSE, items |-> <<>>]

Call(req, resp) == [request |-> req, response |-> resp]

\* the lists of objects of `catalog` the host may still return
Lists(catalog) == SeqUpTo(catalog, MaxResources - ItemsReturned(calls))

\* faulty variant: a failed query counts as "nothing exposed"
DetectionFails_Swallowed ==
    /\ detection' = "ok"
    /\ response' = accept_request
    /\ pc' = "done"
    /\ DetectorIdle
    /\ UNCHANGED <<earlier, resource, extracted, request, services, listed>>

\* the `?` of check.rs:40,45 and lib.rs:47: the error leaves both functions
DetectionFails ==
    /\ detection' = "err"
    /\ response' = ErrorResult
    /\ pc' = "done"
    /\ DetectorIdle
    /\ UNCHANGED <<earlier, resource, extracted, request, services, listed>>

\* check.rs:36-40 and 60-82: next namespace of the map, its Ingresses listed
ListIngressesOk(namespace, items) ==
    /\ pc = "ingress"
    /\ namespace \in pending
    /\ calls' = Append(calls, Call(IngressListRequest(namespace), ListOk(items)))
    /\ current' = Some(namespace)
    /\ svcs_exposed_by_ingress' =
           ExposedByIngress(webhook_svcs_by_namespace[namespace], items)
    /\ pc' = "service"
    /\ UNCHANGED <<earlier, resource, extracted, request, services, webhook_svcs_by_namespace, pending,
                   exposed_services_being_used, detection, listed, response>>

\* faulty variant: a failed Ingress query counts as an empty list, and the loop goes on
ListIngressesErr_GoesOn(namespace) ==
    /\ pc = "ingress"
    /\ namespace \in pending
    /\ calls' = Append(calls, Call(IngressListRequest(namespace), ListErr))
    /\ current' = Some(namespace)
    /\ svcs_exposed_by_ingress' = {}
    /\ pc' = "service"
    /\ UNCHANGED <<earlier, resource, extracted, request, services,
                   webhook_svcs_by_namespace, pending, exposed_services_being_used,
                   detection, listed, response>>

\* check.rs:68  the Ingress query fails
ListIngressesErr(namespace) ==
    /\ pc = "ingress"
    /\ namespace \in pending
    /\ calls' = Append(calls, Call(IngressListRequest(namespace), ListErr))
    /\ DetectionFails

\* faulty variant: the Ingress result of the namespace is not added to the exposed set
ListServicesOk_DropIngress(items) ==
    /\ pc = "service"
    /\ LET namespace == Unwrap(current)
           svcs_exposed_by_nodeport_loadbalancer ==
               ExposedByNodePortLoadBalancer(webhook_svcs_by_namespace[namespace], items)
       IN  /\ calls' = Append(calls, Call(ServiceListRequest(namespace), ListOk(items)))
           /\ exposed_services_being_used' =
                  exposed_services_being_used \cup svcs_exposed_by_nodeport_loadbalancer
           /\ pending' = Unvisited(pending, namespace)
    /\ current' = None
    /\ svcs_exposed_by_ingress' = {}
    /\ pc' = "ingress"
    /\ UNCHANGED <<earlier, resource, extracted, request, services, webhook_svcs_by_namespace,
                   detection, listed, response>>

\* faulty variant: the results of a namespace replace those of the namespaces before
ListServicesOk_LastWins(items) ==
    /\ pc = "service"
    /\ LET namespace == Unwrap(current)
           svcs_exposed_by_nodeport_loadbalancer ==
               ExposedByNodePortLoadBalancer(webhook_svcs_by_namespace[namespace], items)
       IN  /\ calls' = Append(calls, Call(ServiceListRequest(namespace), ListOk(items)))
           /\ exposed_services_being_used' =
                  svcs_exposed_by_ingress \cup svcs_exposed_by_nodeport_loadbalancer
           /\ pending' = Unvisited(pending, namespace)
    /\ current' = None
    /\ svcs_exposed_by_ingress' = {}
    /\ pc' = "ingress"
    /\ UNCHANGED <<earlier, resource, extracted, request, services,
                   webhook_svcs_by_namespace, detection, listed, response>>

\* check.rs:41-47 and 92-120: the Services of the same namespace listed, and both
\* results added to the exposed set
ListServicesOk(items) ==
    /\ pc = "service"
    /\ LET namespace == Unwrap(current)
           svcs_exposed_by_nodeport_loadbalancer ==
               ExposedByNodePortLoadBalancer(webhook_svcs_by_namespace[namespace], items)
       IN  /\ calls' = Append(calls, Call(ServiceListRequest(namespace), ListOk(items)))
           /\ exposed_services_being_used' =
                  (exposed_services_being_used \cup svcs_exposed_by_ingress)
                      \cup svcs_exposed_by_nodeport_loadbalancer
           /\ pending' = Unvisited(pending, namespace)
    /\ current' = None
    /\ svcs_exposed_by_ingress' = {}
    /\ pc' = "ingress"
    /\ UNCHANGED <<earlier, resource, extracted, request, services, webhook_svcs_by_namespace, detection, listed,
                   response>>

\* check.rs:100  the Service query fails
ListServicesErr ==
    /\ pc = "service"
    /\ calls' = Append(calls, Call(ServiceListRequest(Unwrap(current)), ListErr))
    /\ DetectionFails

\* faulty variant: the request is accepted whatever was found
ReturnAccept_Unconditional ==
    /\ pc = "ingress"
    /\ pending = {}
    /\ detection' = "ok"
    /\ response' = accept_request
    /\ pc' = "done"
    /\ UNCHANGED <<earlier, resource, extracted, request, services, webhook_svcs_by_namespace,
                   pending, current, svcs_exposed_by_ingress,
                   exposed_services_being_used, calls, listed>>

\* check.rs:50 and lib.rs:49-52: nothing exposed
ReturnAccept ==
    /\ pc = "ingress"
    /\ pending = {}
    /\ exposed_services_being_used = {}
    /\ detection' = "ok"
    /\ response' = accept_request
    /\ pc' = "done"
    /\ UNCHANGED <<earlier, resource, extracted, request, services, webhook_svcs_by_namespace, pending, current,
                   svcs_exposed_by_ingress, exposed_services_being_used, calls, listed>>

\* check.rs:50 and lib.rs:54-63: the exposed services are listed in the order the
\* HashSet is iterated
ReturnReject(order) ==
    /\ pc = "ingress"
    /\ pending = {}
    /\ exposed_services_being_used # {}
    /\ detection' = "ok"
    /\ listed' = FormatServices(order)
    /\ response' = reject_request(RejectMessage(FormatServices(order)))
    /\ pc' = "done"
    /\ UNCHANGED <<earlier, resource, extracted, request, services, webhook_svcs_by_namespace, pending, current,
                   svcs_exposed_by_ingress, exposed_services_being_used, calls>>

Next ==
    \/ ValidatePayloadError
    \/ ValidateOtherKind
    \/ ValidateDecodeError
    \/ ValidateValidating
    \/ ValidateMutating
    \/ \E namespace \in pending :
         \/ \E items \in Lists(ClusterIngresses) : ListIngressesOk(namespace, items)
         \/ ListIngressesErr(namespace)
    \/ \E items \in Lists(ClusterServices) : ListServicesOk(items)
    \/ ListServicesErr
    \/ ReturnAccept
    \/ \E order \in IterationOrders(exposed_services_being_used) : ReturnReject(order)

Spec == Init /\ [][Next]_vars

(***************************************************************************)
(* Service::get_services on its own (service_finder.rs:96-115): the        *)
(* Services of the bounded universe, each handed to the extraction once.   *)
(***************************************************************************)
Protocols == {"TCP", "UDP"}

ServicePorts == {ServicePort(p, Some(proto)) : p \in Ports, proto \in Protocols}

\* the API server admits a list of ports only if its (port, protocol) pairs differ
ServicePortLists ==
    {l \in SeqUpTo(ServicePorts, MaxPorts) :
        \A i, j \in DOMAIN l : l[i] = l[j] => i = j}

ServiceSpecs ==
    {ServiceSpec(t, ps) : t \in OptionOf(ServiceTypes), ps \in OptionOf(ServicePortLists)}

ServiceObjects ==
    {Service(n, ns, sp) :
        n \in OptionOf(Names), ns \in OptionOf(Namespaces), sp \in OptionOf(ServiceSpecs)}

NoRequest == [payload_ok |-> FALSE, kind |-> "", object |-> None]

\* no admission request is being evaluated
ValidateIdle ==
    /\ request = NoRequest
    /\ services = {}
    /\ webhook_svcs_by_namespace = EmptyMap
    /\ pending = {}
    /\ current = None
    /\ svcs_exposed_by_ingress = {}
    /\ exposed_services_being_used = {}
    /\ calls = <<>>
    /\ detection = "none"
    /\ listed = <<>>
    /\ response = NoResponse
    /\ earlier = None

InitService ==
    /\ ValidateIdle
    /\ pc = "extract"
    /\ resource \in {Some(svc) : svc \in ServiceObjects}
    /\ extracted = {}

\* service.get_services()
ServiceGetServices ==
    /\ pc = "extract"
    /\ extracted' = Service_get_services(Unwrap(resource))
    /\ pc' = "extracted"
    /\ UNCHANGED <<earlier, request, services, webhook_svcs_by_namespace, pending, current,
                   svcs_exposed_by_ingress, exposed_services_being_used, calls,
                   detection, listed, response, resource>>

NextService == ServiceGetServices

SpecService == InitService /\ [][NextService]_vars

(***************************************************************************)
(* Properties of find_webhook_services_exposed and validate                *)
(***************************************************************************)
TargetNamespaces == {t.namespace : t \in services}

TargetsIn(ns) == {t \in services : t.namespace = ns}

\* the positions in the log of the queries for kind `kind_` in namespace `ns`
CallsOf(ns, kind_) ==
    {i \in DOMAIN calls :
        calls[i].request.namespace = ns /\ calls[i].request.kind = kind_}

\* the objects the host listed for kind `kind_` in namespace `ns`
ListedItems(ns, kind_) ==
    UNION {{calls[i].response.items[k] : k \in DOMAIN calls[i].response.items} :
             i \in CallsOf(ns, kind_)}

ExposingType(svc) ==
    /\ svc.spec # None
    /\ \/ svc.spec[1].type_ = Some("NodePort")
       \/ svc.spec[1].type_ = Some("LoadBalancer")

IngressCandidates(ns) ==
    UNION {Ingress_get_services(x) : x \in ListedItems(ns, "Ingress")}

ServiceCandidates(ns) ==
    UNION {Service_get_services(x) :
             x \in {y \in ListedItems(ns, "Service") : ExposingType(y)}}

QueriedNamespaces == {calls[i].request.namespace : i \in DOMAIN calls}

QueryFailed == \E i \in DOMAIN calls : ~calls[i].response.ok

\* C1: when every list query succeeds, the exposed set returned is exactly the
\* union, over the namespaces of the targets, of the Ingress candidates of the
\* namespace intersected with its targets and the NodePort/LoadBalancer Service
\* candidates of the namespace intersected with its targets.
C1_ExposedIsUnionOverNamespaces ==
    detection = "ok" =>
        exposed_services_being_used =
            UNION {(IngressCandidates(ns) \cap TargetsIn(ns))
                     \cup (ServiceCandidates(ns) \cap TargetsIn(ns)) :
                   ns \in TargetNamespaces}

\* two namespaces, one target exposed by an Ingress and the other by a Service
C1_Witness ==
    /\ detection = "ok"
    /\ \E n1, n2 \in TargetNamespaces :
         /\ n1 # n2
         /\ IngressCandidates(n1) \cap TargetsIn(n1) # {}
         /\ ServiceCandidates(n2) \cap TargetsIn(n2) # {}
    /\ Cardinality(exposed_services_being_used) = 2

\* C2: once a list query has failed, find_webhook_services_exposed has returned
\* an error (never Ok) and validate has returned that error: no accept, no reject.
C2_QueryFailureIsAnError ==
    QueryFailed =>
        /\ detection = "err"
        /\ response.status = "error"
        /\ pc = "done"

\* the third query fails after the first namespace was found exposed
C2_Witness ==
    /\ Len(calls) = 3
    /\ ~calls[3].response.ok
    /\ IngressCandidates(calls[1].request.namespace)
           \cap TargetsIn(calls[1].request.namespace) # {}
    /\ response.status = "error"

\* C3: a target is in the exposed set only if a listed Ingress backend or a port of
\* a listed NodePort/LoadBalancer Service gives an identity equal to it in
\* namespace, name and port; a NodePort Service with ports [81, 80] exposes a
\* target at port 80 once.
C3_MatchIsExactOnThreeFields ==
    /\ \A x \in exposed_services_being_used :
         /\ x \in services
         /\ \E ns \in QueriedNamespaces :
              \E c \in IngressCandidates(ns) \cup ServiceCandidates(ns) :
                 /\ c.namespace = x.namespace
                 /\ c.name = x.name
                 /\ c.port_number = x.port_number
    /\ ( /\ detection = "ok"
         /\ services = {ServiceDetails("a", "s", Some(80))}
         /\ ListedItems("a", "Ingress") = {}
         /\ ListedItems("a", "Service")
                = {ServiceOf("s", Some("a"), Some("NodePort"), <<81, 80>>)} )
       => exposed_services_being_used = {ServiceDetails("a", "s", Some(80))}

\* the NodePort scenario of check.rs, and a target at port 81 next to one at 80
C3_Witness ==
    /\ detection = "ok"
    /\ services = {ServiceDetails("a", "s", Some(80))}
    /\ ListedItems("a", "Ingress") = {}
    /\ ListedItems("a", "Service")
           = {ServiceOf("s", Some("a"), Some("NodePort"), <<81, 80>>)}
    /\ Cardinality(exposed_services_being_used) = 1

AllListed(kind_) == UNION {ListedItems(ns, kind_) : ns \in QueriedNamespaces}

\* the listed Ingresses, and the listed Services, that reference the identity t
IngressesReferencing(t) == {x \in AllListed("Ingress") : t \in Ingress_get_services(x)}

ServicesReferencing(t) == {x \in AllListed("Service") : t \in Service_get_services(x)}

\* C4: a target whose only matching resources are Services of a type other than
\* NodePort and LoadBalancer (or without type) is not in the exposed set.
C4_OtherServiceTypesNeverExpose ==
    \A t \in services :
        (IngressesReferencing(t) = {} /\ \A x \in ServicesReferencing(t) : ~ExposingType(x))
            => t \notin exposed_services_being_used

\* a target matched by a listed Service that is not NodePort/LoadBalancer, and by
\* nothing else
C4_Witness ==
    /\ detection = "ok"
    /\ \E t \in services :
         /\ IngressesReferencing(t) = {}
         /\ ServicesReferencing(t) # {}
         /\ \A x \in ServicesReferencing(t) : ~ExposingType(x)
         /\ t \notin exposed_services_being_used

\* metadata.namespace of a listed object
OwnNamespace(x) == IF x.metadata.namespace = None THEN "" ELSE x.metadata.namespace[1]

\* the namespaces of the listed Ingresses and NodePort/LoadBalancer Services that
\* name the service `name` at `port`
NamespacesNaming(name, port) ==
    {OwnNamespace(x) : x \in {y \in AllListed("Ingress") :
        \E c \in Ingress_get_services(y) : c.name = name /\ c.port_number = port}}
      \cup {OwnNamespace(x) : x \in {y \in AllListed("Service") :
              /\ ExposingType(y)
              /\ \E c \in Service_get_services(y) :
                    c.name = name /\ c.port_number = port}}

\* C5: an exposed target is named by a listed resource of its own namespace;
\* resources of another namespace with the same name and port do not expose it.
C5_NamespaceIsolation ==
    \A t \in exposed_services_being_used :
        t.namespace \in NamespacesNaming(t.name, t.port_number)

\* a target named only by a resource of the other namespace stays unexposed
C5_Witness ==
    /\ detection = "ok"
    /\ \E t \in services :
         /\ NamespacesNaming(t.name, t.port_number) # {}
         /\ NamespacesNaming(t.name, t.port_number) \subseteq Namespaces \ {t.namespace}
         /\ t \notin exposed_services_being_used

\* C6: while every query succeeds, no (namespace, kind) is queried twice; when the
\* detection returns, each namespace of the targets was queried once for
\* Ingresses and once for Services and nothing else was queried, so an empty
\* target set costs no query and gives the empty set.
C6_OneQueryPairPerNamespace ==
    /\ ~QueryFailed =>
         \A ns \in QueriedNamespaces :
            /\ Cardinality(CallsOf(ns, "Ingress")) <= 1
            /\ Cardinality(CallsOf(ns, "Service")) <= 1
    /\ detection = "ok" =>
         /\ \A ns \in TargetNamespaces :
               /\ Cardinality(CallsOf(ns, "Ingress")) = 1
               /\ Cardinality(CallsOf(ns, "Service")) = 1
         /\ Len(calls) = 2 * Cardinality(TargetNamespaces)
         /\ (services = {} => calls = <<>> /\ exposed_services_being_used = {})

\* two targets of one namespace cost a single pair of queries
C6_Witness ==
    /\ detection = "ok"
    /\ Cardinality(services) = 2
    /\ Cardinality(TargetNamespaces) = 1
    /\ Len(calls) = 2

\* C7: when the detection succeeds, validate accepts iff the exposed set is empty
\* and rejects iff it is not.
C7_AcceptIffNothingExposed ==
    detection = "ok" =>
        /\ request.kind \in WebhookKinds
        /\ response.status \in {"accept", "reject"}
        /\ response.status = "accept" <=> exposed_services_being_used = {}
        /\ response.status = "reject" <=> exposed_services_being_used # {}

\* a target in a namespace without Ingress and Service is accepted
C7_Witness ==
    /\ detection = "ok"
    /\ services # {}
    /\ \A i \in DOMAIN calls : calls[i].response.items = <<>>
    /\ response.status = "accept"

\* C8: the rejection message lists every exposed namespace/name pair exactly once.
C8_MessageListsEachPairOnce ==
    response.status = "reject" =>
        /\ {listed[i] : i \in DOMAIN listed}
               = {FormatService(x) : x \in exposed_services_being_used}
        /\ \A i, j \in DOMAIN listed : listed[i] = listed[j] => i = j
        /\ response.message = RejectMessage(listed)

\* C9: a request of another kind is accepted at once: its object is never
\* decoded, the detector is never entered and no query is issued.
C9_OtherKindsAcceptedImmediately ==
    (request.payload_ok /\ request.kind \notin WebhookKinds) =>
        /\ pc \in {"validate", "done"}
        /\ IsSome(request.object)
        /\ detection = "none"
        /\ services = {}
        /\ calls = <<>>
        /\ pc = "done" => response = accept_request

\* a Pod request whose object would decode as a webhook configuration
C9_Witness ==
    /\ pc = "done"
    /\ request.kind = "Pod"
    /\ IsSome(request.object)
    /\ Unwrap(request.object).decodable
    /\ response.status = "accept"

(***************************************************************************)
(* Properties of Service::get_services                                     *)
(***************************************************************************)
DeclaredPorts == Unwrap(Unwrap(Unwrap(resource).spec).ports)

HasPorts ==
    /\ pc = "extracted"
    /\ IsSome(Unwrap(resource).spec)
    /\ IsSome(Unwrap(Unwrap(resource).spec).ports)

SharesNameAndNamespace(d) ==
    /\ d.name = UnwrapOrDefault(Unwrap(resource).metadata.name)
    /\ d.namespace = UnwrapOrDefault(Unwrap(resource).metadata.namespace)

BackendPorts ==
    {None, Some(BackendPortNamed)} \cup {Some(BackendPortNumber(n)) : n \in {80}}

IngressServiceBackends ==
    {IngressServiceBackend(n, p) : n \in Names, p \in BackendPorts}

\* backends with a service, and backends with a resource reference only
IngressBackends == {IngressBackend(sv) : sv \in OptionOf(IngressServiceBackends)}

HTTPIngressPaths == {HTTPIngressPath(b) : b \in IngressBackends}

\* the rules with exactly k paths; a rule without http section has none
RulesWithPaths(k) ==
    {IngressRule(Some([paths |-> ps])) : ps \in [1..k -> HTTPIngressPaths]}
      \cup (IF k = 0 THEN {IngressRule(None)} ELSE {})

\* the lists of at most r rules with at most p paths altogether
RECURSIVE RuleLists(_, _)
RuleLists(r, p) ==
    IF r = 0
      THEN {<<>>}
      ELSE {<<>>} \cup
           UNION {{<<rule>> \o rest : rule \in RulesWithPaths(k),
                                      rest \in RuleLists(r - 1, p - k)} :
                  k \in 0..p}

IngressSpecs ==
    {IngressSpec(d, rs) :
        d \in OptionOf(IngressBackends), rs \in OptionOf(RuleLists(MaxRules, MaxPaths))}

IngressObjects ==
    {Ingress(ns, sp) : ns \in OptionOf(Namespaces), sp \in OptionOf(IngressSpecs)}

InitIngress ==
    /\ ValidateIdle
    /\ pc = "extract"
    /\ resource \in {Some(ing) : ing \in IngressObjects}
    /\ extracted = {}

\* ingress.get_services()
IngressGetServices ==
    /\ pc = "extract"
    /\ extracted' = Ingress_get_services(Unwrap(resource))
    /\ pc' = "extracted"
    /\ UNCHANGED <<earlier, request, services, webhook_svcs_by_namespace, pending, current,
                   svcs_exposed_by_ingress, exposed_services_being_used, calls,
                   detection, listed, response, resource>>

NextIngress == IngressGetServices

SpecIngress == InitIngress /\ [][NextIngress]_vars

(***************************************************************************)
(* Properties of Ingress::get_services                                     *)
(***************************************************************************)
TheIngress == Unwrap(resource)

TheIngressSpec == Unwrap(TheIngress.spec)

\* the service backend of spec.defaultBackend, as a set
DefaultServiceBackends ==
    IF TheIngressSpec.default_backend = None
      THEN {}
      ELSE {b[1] : b \in {TheIngressSpec.default_backend[1].service} \ {None}}

\* the service backends of the paths of the HTTP rules
PathServiceBackends ==
    IF TheIngressSpec.rules = None
      THEN {}
      ELSE LET rules == TheIngressSpec.rules[1]
           IN  UNION {IF rules[r].http = None
                        THEN {}
                        ELSE {rules[r].http[1].paths[k].backend.service[1] :
                                k \in {j \in DOMAIN rules[r].http[1].paths :
                                         rules[r].http[1].paths[j].backend.service # None}} :
                      r \in DOMAIN rules}

\* C11: for an Ingress with a spec, the extraction is the set of the identities of
\* the defaultBackend service and of the backend service of every path of every
\* HTTP rule, duplicates counted once, each with the namespace of the Ingress.
C11_IngressBackendsUnion ==
    (pc = "extracted" /\ TheIngress.spec # None) =>
        /\ extracted =
             {from_service_backend(OwnNamespace(TheIngress), b) :
                b \in DefaultServiceBackends \cup PathServiceBackends}
        /\ \A d \in extracted : d.namespace = OwnNamespace(TheIngress)
        /\ Cardinality(extracted)
             = Cardinality({<<b.name, from_service_backend("", b).port_number>> :
                              b \in DefaultServiceBackends \cup PathServiceBackends})

\* a default backend, a rule without http, and two paths to one other backend
C11_Witness ==
    /\ pc = "extracted"
    /\ TheIngress.spec # None
    /\ DefaultServiceBackends # {}
    /\ TheIngressSpec.rules # None
    /\ \E r \in DOMAIN TheIngressSpec.rules[1] :
         /\ TheIngressSpec.rules[1][r].http # None
         /\ Len(TheIngressSpec.rules[1][r].http[1].paths) = 2
         /\ TheIngressSpec.rules[1][r].http[1].paths[1]
              = TheIngressSpec.rules[1][r].http[1].paths[2]
    /\ PathServiceBackends \cap DefaultServiceBackends = {}
    /\ Cardinality(extracted) = 2

(***************************************************************************)
(* get_services of the two webhook configuration kinds on its own          *)
(* (service_finder.rs:18-48)                                               *)
(***************************************************************************)
WebhookConfigurations ==
    {[kind |-> k, webhooks |-> w] : k \in WebhookKinds, w \in OptionOf(WebhookLists)}

InitWebhook ==
    /\ ValidateIdle
    /\ pc = "extract"
    /\ resource \in {Some(cfg) : cfg \in WebhookConfigurations}
    /\ extracted = {}

\* ValidatingWebhookConfiguration::get_services
ValidatingGetServices ==
    /\ pc = "extract"
    /\ Unwrap(resource).kind = ValidatingWebhookConfiguration_KIND
    /\ extracted' = ValidatingWebhookConfiguration_get_services(Unwrap(resource))
    /\ pc' = "extracted"
    /\ UNCHANGED <<earlier, request, services, webhook_svcs_by_namespace, pending, current,
                   svcs_exposed_by_ingress, exposed_services_being_used, calls,
                   detection, listed, response, resource>>

\* MutatingWebhookConfiguration::get_services
MutatingGetServices ==
    /\ pc = "extract"
    /\ Unwrap(resource).kind = MutatingWebhookConfiguration_KIND
    /\ extracted' = MutatingWebhookConfiguration_get_services(Unwrap(resource))
    /\ pc' = "extracted"
    /\ UNCHANGED <<earlier, request, services, webhook_svcs_by_namespace, pending, current,
                   svcs_exposed_by_ingress, exposed_services_being_used, calls,
                   detection, listed, response, resource>>

NextWebhook == ValidatingGetServices \/ MutatingGetServices

SpecWebhook == InitWebhook /\ [][NextWebhook]_vars

(***************************************************************************)
(* Properties of the webhook configuration extraction                      *)
(***************************************************************************)
\* the distinct clientConfig.service references of the configuration at hand
ServiceReferences ==
    IF Unwrap(resource).webhooks = None
      THEN {}
      ELSE LET webhooks == Unwrap(resource).webhooks[1]
           IN  {webhooks[i].client_config.service[1] :
                  i \in {j \in DOMAIN webhooks : webhooks[j].client_config.service # None}}

\* C12: the extraction of either configuration kind has exactly one identity
\* (namespace, name, port) per distinct clientConfig.service reference; URL-based
\* entries are skipped, a reference named twice counts once, an absent webhooks
\* list yields the empty set, and the kind does not change the set.
C12_OneIdentityPerServiceReference ==
    pc = "extracted" =>
        /\ extracted = {[namespace |-> r.namespace, name |-> r.name, port_number |-> r.port] :
                          r \in ServiceReferences}
        /\ Cardinality(extracted) = Cardinality(ServiceReferences)
        /\ Unwrap(resource).webhooks = None => extracted = {}

\* a mutating configuration naming the same service and port twice
C12_Witness ==
    /\ pc = "extracted"
    /\ Unwrap(resource).kind = MutatingWebhookConfiguration_KIND
    /\ Unwrap(resource).webhooks # None
    /\ Len(Unwrap(resource).webhooks[1]) = 2
    /\ Unwrap(resource).webhooks[1][1] = Unwrap(resource).webhooks[1][2]
    /\ Unwrap(resource).webhooks[1][1].client_config.service # None
    /\ Unwrap(resource).webhooks[1][1].client_config.service[1].port # None
    /\ Cardinality(extracted) = 1

(***************************************************************************)
(* Two evaluations in sequence: the detector runs again on the targets of  *)
(* the same request, against the cluster the first evaluation saw.  The    *)
(* host answers a query it has answered before as it did then; a query it  *)
(* sees for the first time is answered freely.                             *)
(***************************************************************************)
\* the answers the host has given to the query `req`
Answered(req) ==
    {calls[i].response : i \in {j \in DOMAIN calls : calls[j].request = req}}

RECURSIVE ItemsIn(_)
ItemsIn(answers) ==
    IF answers = {}
      THEN 0
      ELSE LET a == CHOOSE x \in answers : TRUE
           IN  Len(a.response.items) + ItemsIn(answers \ {a})

\* the objects of the cluster seen so far, every answered query counted once
ItemsSeen == ItemsIn({calls[i] : i \in DOMAIN calls})

\* the lists the host may return for `req`
OkAnswers(req, catalog) ==
    IF Answered(req) = {}
      THEN SeqUpTo(catalog, MaxResources - ItemsSeen)
      ELSE {a.items : a \in {x \in Answered(req) : x.ok}}

\* whether the host may fail `req`
MayFail(req) == \A a \in Answered(req) : ~a.ok

Outcome(d, exposed, resp) == [detection |-> d, exposed |-> exposed, status |-> resp.status]

\* validate is invoked again with an equal request: lib.rs:33-47 yields the same
\* targets, and find_webhook_services_exposed starts afresh
Rerun ==
    /\ pc = "done"
    /\ detection \in {"ok", "err"}
    /\ earlier = None
    /\ earlier' = Some(Outcome(detection, exposed_services_being_used, response))
    /\ EnterDetector(services)
    /\ listed' = <<>>
    /\ response' = NoResponse
    /\ UNCHANGED <<request, calls, resource, extracted>>

\* the requests that reach the detector; the two configuration kinds reach it
\* alike, one of them is followed here
InitTwice ==
    /\ Init
    /\ request.payload_ok
    /\ request.kind = ValidatingWebhookConfiguration_KIND
    /\ Unwrap(request.object).decodable

NextTwice ==
    \/ ValidateValidating
    \/ \E namespace \in pending :
         \E items \in OkAnswers(IngressListRequest(namespace), ClusterIngresses) :
            ListIngressesOk(namespace, items)
    \/ \E namespace \in pending :
         MayFail(IngressListRequest(namespace)) /\ ListIngressesErr(namespace)
    \/ /\ pc = "service"
       /\ \E items \in OkAnswers(ServiceListRequest(Unwrap(current)), ClusterServices) :
            ListServicesOk(items)
    \/ /\ pc = "service"
       /\ MayFail(ServiceListRequest(Unwrap(current)))
       /\ ListServicesErr
    \/ ReturnAccept
    \/ \E order \in IterationOrders(exposed_services_being_used) : ReturnReject(order)
    \/ Rerun

SpecTwice == InitTwice /\ [][NextTwice]_vars

\* C13: the second evaluation of a request ends as the first one did: the same
\* exposed set and the same decision (or the same failure), whatever the order in
\* which either evaluation visits the namespaces.
C13_SecondRunSameOutcome ==
    (pc = "done" /\ earlier # None) =>
        earlier[1] = Outcome(detection, exposed_services_being_used, response)

\* both evaluations reject, and the second one starts with the namespace the
\* first one visited last
C13_Witness ==
    /\ pc = "done"
    /\ earlier # None
    /\ earlier[1].exposed # {}
    /\ response.status = "reject"
    /\ Len(calls) = 8
    /\ calls[5].request.namespace = calls[3].request.namespace
    /\ calls[5].request.namespace # calls[1].request.namespace

(***************************************************************************)
(* Absent ports                                                            *)
(***************************************************************************)
\* the service backends an Ingress object names: defaultBackend and rule paths
ServiceBackendsOf(x) ==
    IF x.spec = None
      THEN {}
      ELSE (IF x.spec[1].default_backend = None
              THEN {}
              ELSE {b[1] : b \in {x.spec[1].default_backend[1].service} \ {None}})
           \cup
           (IF x.spec[1].rules = None
              THEN {}
              ELSE UNION {IF r.http = None
                            THEN {}
                            ELSE {b[1] : b \in {r.http[1].paths[k].backend.service :
                                                  k \in DOMAIN r.http[1].paths} \ {None}} :
                          r \in {x.spec[1].rules[1][i] : i \in DOMAIN x.spec[1].rules[1]}})

\* the backend gives a port number
Numbered(b) == b.port # None /\ b.port[1].number # None

\* the listed Ingresses of the namespace of t name the service of t, if at all,
\* by a named or absent port only
OnlyUnnumberedBackends(t) ==
    \A x \in ListedItems(t.namespace, "Ingress") :
        \A b \in ServiceBackendsOf(x) : b.name = t.name => ~Numbered(b)

\* C14: no port is resolved.  A target with a port number that the Ingresses of
\* its namespace name by named or absent ports only, and that no
\* NodePort/LoadBalancer Service matches, is not exposed; a target without port is
\* exposed only by an Ingress backend without port number, never by a Service,
\* whose identities all carry a port number.
C14_AbsentPortIsItsOwnIdentity ==
    /\ \A t \in services :
         ( /\ t.port_number # None
           /\ OnlyUnnumberedBackends(t)
           /\ \A x \in ServicesReferencing(t) : ~ExposingType(x) )
             => t \notin exposed_services_being_used
    /\ \A t \in exposed_services_being_used :
         t.port_number = None =>
            \E x \in ListedItems(t.namespace, "Ingress") :
               \E b \in ServiceBackendsOf(x) : b.name = t.name /\ ~Numbered(b)
    /\ \A ns \in QueriedNamespaces :
         \A c \in ServiceCandidates(ns) : c.port_number # None

\* two targets of one service, with port 80 and without port; an Ingress names the
\* service by a named port and a NodePort Service declares its ports: only the
\* target without port is exposed, and by the Ingress
C14_Witness ==
    /\ detection = "ok"
    /\ \E t, u \in services :
         /\ t.port_number # None
         /\ u = [t EXCEPT !.port_number = None]
         /\ OnlyUnnumberedBackends(t)
         /\ \E x \in ListedItems(t.namespace, "Ingress") :
              \E b \in ServiceBackendsOf(x) : b.name = t.name /\ b.port # None
         /\ \E y \in ListedItems(t.namespace, "Service") :
              ExposingType(y) /\ Service_get_services(y) # {}
         /\ exposed_services_being_used = {u}

(***************************************************************************)
(* pod-ndots-policy/src/lib.rs                                             *)
(***************************************************************************)
\* options of one dnsConfig
MaxOptions == 2

PodDNSConfigOption(name, value) == [name |-> name, value |-> value]

PodDNSConfig(nameservers, searches, options) ==
    [nameservers |-> nameservers, searches |-> searches, options |-> options]

\* PodSpec: dns_config, and containers standing for every other field
PodSpec(dns_config, containers) == [dns_config |-> dns_config, containers |-> containers]

\* PodSpec::default()
PodSpec_default == PodSpec(None, <<>>)

Pod(name, spec) == [metadata |-> [name |-> name], spec |-> spec]

Pod_KIND == "Pod"

Settings(ndots) == [ndots |-> ndots]

Digits == <<"0", "1", "2", "3", "4", "5", "6", "7", "8", "9">>

\* usize::to_string: the decimal digits, without sign or leading zero
RECURSIVE to_string(_)
to_string(n) ==
    IF n < 10 THEN Digits[n + 1] ELSE to_string(n \div 10) \o Digits[(n % 10) + 1]

\* faulty variant: the options are replaced by the ndots option alone
enforce_ndots_OnlyNdots(settings, podspec) ==
    [podspec EXCEPT !.dns_config =
        Some(PodDNSConfig(
            IF podspec.dns_config = None THEN None ELSE Unwrap(podspec.dns_config).nameservers,
            IF podspec.dns_config = None THEN None ELSE Unwrap(podspec.dns_config).searches,
            Some(<<PodDNSConfigOption(Some("ndots"), Some(to_string(settings.ndots)))>>)))]

\* faulty variant: the ndots option is pushed whether or not one is present
enforce_ndots_AlwaysPushes(settings, podspec) ==
    LET options ==
            IF podspec.dns_config = None \/ Unwrap(podspec.dns_config).options = None
              THEN <<>>
              ELSE Unwrap(Unwrap(podspec.dns_config).options)
        ndots == PodDNSConfigOption(Some("ndots"), Some(to_string(settings.ndots)))
        mapped ==
            [i \in 1..Len(options) |->
                IF options[i].name = Some("ndots") THEN ndots ELSE options[i]]
    IN  [podspec EXCEPT !.dns_config =
            Some(PodDNSConfig(
                IF podspec.dns_config = None
                  THEN None ELSE Unwrap(podspec.dns_config).nameservers,
                IF podspec.dns_config = None
                  THEN None ELSE Unwrap(podspec.dns_config).searches,
                Some(Append(mapped, ndots))))]

\* lib.rs:41-86
enforce_ndots(settings, podspec) ==
    LET options ==
            IF podspec.dns_config = None \/ Unwrap(podspec.dns_config).options = None
              THEN <<>>
              ELSE Unwrap(Unwrap(podspec.dns_config).options)
        ndots == PodDNSConfigOption(Some("ndots"), Some(to_string(settings.ndots)))
        mapped ==
            [i \in 1..Len(options) |->
                IF options[i].name = Some("ndots") THEN ndots ELSE options[i]]
        dns_options ==
            IF \A i \in 1..Len(mapped) : mapped[i].name # Some("ndots")
              THEN Append(mapped, ndots)
              ELSE mapped
    IN  [podspec EXCEPT !.dns_config =
            Some(PodDNSConfig(
                IF podspec.dns_config = None
                  THEN None ELSE Unwrap(podspec.dns_config).nameservers,
                IF podspec.dns_config = None
                  THEN None ELSE Unwrap(podspec.dns_config).searches,
                Some(dns_options)))]

\* kubewarden::mutate_request(object): accepted, with the object to store
mutate_request(object) ==
    [status |-> "accept", message |-> "", mutated_object |-> Some(object)]

\* ValidationResponse.mutated_object
MutatedObject(resp) ==
    IF "mutated_object" \in DOMAIN resp THEN resp.mutated_object ELSE None

OptionNames == {None, Some("ndots"), Some("timeout")}

OptionValues == {None, Some("1"), Some("5"), Some("05")}

DNSOptions == {PodDNSConfigOption(n, v) : n \in OptionNames, v \in OptionValues}

DNSConfigs ==
    {PodDNSConfig(ns, se, op) :
        ns \in {None, Some(<<>>), Some(<<"1.1.1.1">>)},
        se \in {None, Some(<<"example.com">>)},
        op \in OptionOf(SeqUpTo(DNSOptions, MaxOptions))}

PodSpecs ==
    {PodSpec(d, c) : d \in OptionOf(DNSConfigs), c \in {<<>>, <<"nginx">>}}

Pods == {Pod("nginx", sp) : sp \in OptionOf(PodSpecs)}

NdotsSettings == {Settings(n) : n \in {1, 5, 12}}

\* the object of a request: one serde cannot read as a Pod, or a Pod
NdotsObjects ==
    {[decodable |-> FALSE, pod |-> None]}
      \cup {[decodable |-> TRUE, pod |-> Some(pd)] : pd \in Pods}

NdotsRequests ==
    {[payload_ok |-> FALSE, kind |-> "", object |-> None, settings |-> Settings(5)]}
      \cup {[payload_ok |-> TRUE, kind |-> Pod_KIND, object |-> Some(o), settings |-> st] :
              o \in NdotsObjects, st \in NdotsSettings}
      \cup {[payload_ok |-> TRUE, kind |-> k, object |-> Some(o), settings |-> st] :
              k \in {"Deployment"},
              o \in {[decodable |-> FALSE, pod |-> None],
                     [decodable |-> TRUE, pod |-> Some(Pod("nginx", None))]},
              st \in NdotsSettings}

\* the variables of the webhook policy, which takes no part here
WebhookPolicyIdle ==
    /\ services = {}
    /\ webhook_svcs_by_namespace = EmptyMap
    /\ pending = {}
    /\ current = None
    /\ svcs_exposed_by_ingress = {}
    /\ exposed_services_being_used = {}
    /\ calls = <<>>
    /\ detection = "none"
    /\ listed = <<>>

InitNdots ==
    /\ WebhookPolicyIdle
    /\ request \in NdotsRequests
    /\ pc = "validate"
    /\ response = NoResponse
    /\ earlier = None
    /\ resource = None
    /\ extracted = None

\* lib.rs:21  ValidationRequest::new(payload)? fails
NdotsPayloadError ==
    /\ pc = "validate"
    /\ ~request.payload_ok
    /\ response' = ErrorResult
    /\ pc' = "done"
    /\ UNCHANGED <<earlier, request, services, webhook_svcs_by_namespace, pending, current,
                   svcs_exposed_by_ingress, exposed_services_being_used, calls,
                   detection, listed, resource, extracted>>

\* lib.rs:23-25
NdotsOtherKind ==
    /\ pc = "validate"
    /\ request.payload_ok
    /\ request.kind # Pod_KIND
    /\ response' = accept_request
    /\ pc' = "done"
    /\ UNCHANGED <<earlier, request, services, webhook_svcs_by_namespace, pending, current,
                   svcs_exposed_by_ingress, exposed_services_being_used, calls,
                   detection, listed, resource, extracted>>

\* lib.rs:26  serde_json::from_value::<Pod>(..)? fails
NdotsDecodeError ==
    /\ pc = "validate"
    /\ request.payload_ok
    /\ request.kind = Pod_KIND
    /\ ~Unwrap(request.object).decodable
    /\ request' = [request EXCEPT !.object = None]
    /\ response' = ErrorResult
    /\ pc' = "done"
    /\ UNCHANGED <<earlier, services, webhook_svcs_by_namespace, pending, current,
                   svcs_exposed_by_ingress, exposed_services_being_used, calls,
                   detection, listed, resource, extracted>>

\* lib.rs:26-29: the Pod decoded, its spec (or the default one) enforced
NdotsDecoded ==
    /\ pc = "validate"
    /\ request.payload_ok
    /\ request.kind = Pod_KIND
    /\ Unwrap(request.object).decodable
    /\ request' = [request EXCEPT !.object = None]
    /\ LET pod     == Unwrap(Unwrap(request.object).pod)
           podspec == IF pod.spec = None THEN PodSpec_default ELSE Unwrap(pod.spec)
       IN  /\ resource' = Some(pod)
           /\ extracted' = Some(enforce_ndots(request.settings, podspec))

\* faulty variant: the patched pod is returned even when nothing changed
NdotsMutate_Always ==
    /\ NdotsDecoded
    /\ response' = mutate_request([Unwrap(resource') EXCEPT !.spec = extracted'])
    /\ pc' = "done"
    /\ UNCHANGED <<earlier, services, webhook_svcs_by_namespace, pending, current,
                   svcs_exposed_by_ingress, exposed_services_being_used, calls,
                   detection, listed>>

\* lib.rs:30-36
NdotsMutate ==
    /\ NdotsDecoded
    /\ Unwrap(extracted') #
         (IF Unwrap(resource').spec = None
            THEN PodSpec_default ELSE Unwrap(Unwrap(resource').spec))
    /\ response' = mutate_request([Unwrap(resource') EXCEPT !.spec = extracted'])
    /\ pc' = "done"
    /\ UNCHANGED <<earlier, services, webhook_svcs_by_namespace, pending, current,
                   svcs_exposed_by_ingress, exposed_services_being_used, calls,
                   detection, listed>>

\* lib.rs:30 and 38: the enforced spec equals the spec of the Pod
NdotsUnchanged ==
    /\ NdotsDecoded
    /\ Unwrap(extracted') =
         (IF Unwrap(resource').spec = None
            THEN PodSpec_default ELSE Unwrap(Unwrap(resource').spec))
    /\ response' = accept_request
    /\ pc' = "done"
    /\ UNCHANGED <<earlier, services, webhook_svcs_by_namespace, pending, current,
                   svcs_exposed_by_ingress, exposed_services_being_used, calls,
                   detection, listed>>

\* the API server stores the mutated Pod, and the Pod comes back for admission
NdotsResubmit ==
    /\ pc = "done"
    /\ earlier = None
    /\ MutatedObject(response) # None
    /\ earlier' = Some(response)
    /\ request' = [request EXCEPT
                     !.object = Some([decodable |-> TRUE, pod |-> MutatedObject(response)])]
    /\ response' = NoResponse
    /\ resource' = None
    /\ extracted' = None
    /\ pc' = "validate"
    /\ UNCHANGED <<services, webhook_svcs_by_namespace, pending, current,
                   svcs_exposed_by_ingress, exposed_services_being_used, calls,
                   detection, listed>>

NextNdots ==
    \/ NdotsPayloadError
    \/ NdotsOtherKind
    \/ NdotsDecodeError
    \/ NdotsMutate
    \/ NdotsUnchanged
    \/ NdotsResubmit

SpecNdots == InitNdots /\ [][NextNdots]_vars

(***************************************************************************)
(* Properties of the pod-ndots policy                                      *)
(***************************************************************************)
\* the arguments and the result of the call of enforce_ndots
PodSpecIn ==
    IF resource[1].spec = None THEN PodSpec_default ELSE resource[1].spec[1]

PodSpecOut == extracted[1]

OptionsIn ==
    IF PodSpecIn.dns_config = None \/ PodSpecIn.dns_config[1].options = None
      THEN <<>>
      ELSE PodSpecIn.dns_config[1].options[1]

OptionsOut == PodSpecOut.dns_config[1].options[1]

IsNdots(option) == option.name = Some("ndots")

IsOther(option) == ~IsNdots(option)

\* the configured ndots, as the text of an option value
Configured ==
    CASE request.settings.ndots = 1  -> Some("1")
      [] request.settings.ndots = 5  -> Some("5")
      [] request.settings.ndots = 12 -> Some("12")

\* C15: the spec enforce_ndots returns has an option named ndots; every option
\* named ndots has the configured value; the other options keep value, place and
\* order, an added ndots option being the last one; nameservers, searches and
\* every field of the spec other than dnsConfig are those of the argument.
C15_EnforceNdotsFrame ==
    (pc = "done" /\ resource # None) =>
        /\ PodSpecOut.dns_config # None
        /\ PodSpecOut.dns_config[1].options # None
        /\ \E i \in DOMAIN OptionsOut : IsNdots(OptionsOut[i])
        /\ \A i \in DOMAIN OptionsOut :
             IsNdots(OptionsOut[i]) => OptionsOut[i].value = Configured
        /\ SelectSeq(OptionsOut, IsOther) = SelectSeq(OptionsIn, IsOther)
        /\ \A i \in DOMAIN OptionsIn :
             /\ IsOther(OptionsIn[i]) => OptionsOut[i] = OptionsIn[i]
             /\ IsNdots(OptionsIn[i]) => IsNdots(OptionsOut[i])
        /\ Len(OptionsOut) =
             Len(OptionsIn) + (IF \E i \in DOMAIN OptionsIn : IsNdots(OptionsIn[i])
                                 THEN 0 ELSE 1)
        /\ PodSpecOut.dns_config[1].nameservers =
             (IF PodSpecIn.dns_config = None
                THEN None ELSE PodSpecIn.dns_config[1].nameservers)
        /\ PodSpecOut.dns_config[1].searches =
             (IF PodSpecIn.dns_config = None
                THEN None ELSE PodSpecIn.dns_config[1].searches)
        /\ PodSpecOut.containers = PodSpecIn.containers

\* the third case of the test: timeout=5 followed by ndots=1, enforced to 5
C15_Witness ==
    /\ pc = "done"
    /\ resource # None
    /\ request.settings.ndots = 5
    /\ PodSpecIn.containers = <<"nginx">>
    /\ PodSpecIn.dns_config # None
    /\ PodSpecIn.dns_config[1].nameservers = Some(<<"1.1.1.1">>)
    /\ OptionsIn = <<PodDNSConfigOption(Some("timeout"), Some("5")),
                     PodDNSConfigOption(Some("ndots"), Some("1"))>>
    /\ OptionsOut = <<PodDNSConfigOption(Some("timeout"), Some("5")),
                      PodDNSConfigOption(Some("ndots"), Some("5"))>>

\* C16 as stated: validate of the pod-ndots policy accepts every request.
C16_EveryRequestAccepted ==
    pc = "done" => response.status = "accept"

\* C16: validate fails only when the payload, or the object of a Pod request,
\* cannot be decoded.  Every other request is accepted: one of another kind
\* without mutation, a Pod whose spec equals its enforced spec without mutation,
\* any other Pod with the Pod carrying the enforced spec as mutated object; and the
\* mutated Pod, sent again, is accepted without mutation.
C16_AcceptsEveryDecodableRequest ==
    pc = "done" =>
        /\ response.status \in {"accept", "error"}
        /\ response.status = "error" <=>
             (~request.payload_ok \/ (request.kind = Pod_KIND /\ resource = None))
        /\ (request.payload_ok /\ request.kind # Pod_KIND) =>
             MutatedObject(response) = None
        /\ resource # None =>
             /\ PodSpecOut = PodSpecIn => MutatedObject(response) = None
             /\ PodSpecOut # PodSpecIn =>
                  MutatedObject(response) = Some([resource[1] EXCEPT !.spec = Some(PodSpecOut)])
        /\ earlier # None =>
             /\ response.status = "accept"
             /\ MutatedObject(response) = None
             /\ Some(resource[1]) = MutatedObject(earlier[1])

\* a Pod without ndots option was mutated, and its mutated form was accepted as is
C16_Witness ==
    /\ pc = "done"
    /\ earlier # None
    /\ response = accept_request
    /\ \A i \in DOMAIN OptionsIn : OptionsIn[i].name # Some("timeout") \/ i = 1
    /\ Len(OptionsIn) = 2
    /\ OptionsIn[1].name = Some("timeout")

(***************************************************************************)
(* labels-policy/src/lib.rs and annotations-policy/src/lib.rs              *)
(***************************************************************************)
\* serde_json::Value, as far as the two policies look at it
JsonNull == [t |-> "null"]

JsonString(str) == [t |-> "string", str |-> str]

JsonObject(members) == [t |-> "object", members |-> members]

\* Value::get(key): a member of an object, nothing for any other value
Value_get(v, key) ==
    IF v.t = "object" /\ key \in DOMAIN v.members THEN Some(v.members[key]) ELSE None

\* Value::as_object()
as_object(v) == IF v.t = "object" THEN Some(v.members) ELSE None

\* faulty variant: the label keys are read from metadata.annotations
get_resource_label_keys_ReadsAnnotations(validation_request) ==
    LET metadata == Value_get(validation_request.request.object, "metadata")
        labels_value == IF metadata = None
                          THEN None ELSE Value_get(Unwrap(metadata), "annotations")
        labels == IF labels_value = None THEN None ELSE as_object(Unwrap(labels_value))
    IN  IF labels = None THEN {} ELSE DOMAIN Unwrap(labels)

\* labels-policy lib.rs:34-43
get_resource_label_keys(validation_request) ==
    LET metadata == Value_get(validation_request.request.object, "metadata")
        labels_value == IF metadata = None
                          THEN None ELSE Value_get(Unwrap(metadata), "labels")
        labels == IF labels_value = None THEN None ELSE as_object(Unwrap(labels_value))
    IN  IF labels = None THEN {} ELSE DOMAIN Unwrap(labels)

\* annotations-policy lib.rs:34-45
get_resource_annotation_keys(validation_request) ==
    LET metadata == Value_get(validation_request.request.object, "metadata")
        annots_value == IF metadata = None
                          THEN None ELSE Value_get(Unwrap(metadata), "annotations")
        annots == IF annots_value = None THEN None ELSE as_object(Unwrap(annots_value))
    IN  IF annots = None THEN {} ELSE DOMAIN Unwrap(annots)

\* criteria_policy_base::settings::BaseSettings, the two criteria of the tests
ContainsAnyOf(values) == [criteria |-> "containsAnyOf", values |-> values]

ContainsAllOf(values) == [criteria |-> "containsAllOf", values |-> values]

\* criteria_policy_base::validate::validate_values: Ok(()), or Err(e) with the
\* text of e
validate_values(settings, resource_values) ==
    CASE settings.criteria = "containsAnyOf" ->
            IF settings.values \cap resource_values # {}
              THEN None ELSE Some("containsAnyOf is not satisfied")
      [] settings.criteria = "containsAllOf" ->
            IF settings.values \subseteq resource_values
              THEN None ELSE Some("containsAllOf is not satisfied")

\* labels-policy lib.rs:23-32: Ok(()), or Err(vec![e.to_string()])
validate_labels(settings, resource_labels) ==
    IF validate_values(settings, resource_labels) = None
      THEN None
      ELSE Some(<<Unwrap(validate_values(settings, resource_labels))>>)

\* annotations-policy lib.rs:23-32
validate_annotations(settings, resource_annots) ==
    IF validate_values(settings, resource_annots) = None
      THEN None
      ELSE Some(<<Unwrap(validate_values(settings, resource_annots))>>)

Keys == {"foo", "bar", "baz"}

\* a map of strings, as JSON
StringMaps == {JsonObject([k \in ks |-> JsonString("x")]) : ks \in SUBSET Keys}

\* what metadata.labels or metadata.annotations may be, when present
FieldValues == {JsonNull, JsonString("x")} \cup StringMaps

Metadatas ==
    {JsonObject(<<>>)}
      \cup {JsonObject([k \in {"labels"} |-> l]) : l \in FieldValues}
      \cup {JsonObject([k \in {"annotations"} |-> a]) : a \in FieldValues}
      \cup {JsonObject([k \in {"labels", "annotations"} |->
                          IF k = "labels" THEN l ELSE a]) :
              l \in FieldValues, a \in FieldValues}

\* request.object
AdmissionObjects ==
    {JsonNull, JsonObject(<<>>)}
      \cup {JsonObject([k \in {"metadata"} |-> mt]) :
              mt \in {JsonNull, JsonString("x")} \cup Metadatas}

CriteriaSettings ==
    {ContainsAnyOf(vs) : vs \in SUBSET {"foo", "bar"}}
      \cup {ContainsAllOf(vs) : vs \in SUBSET {"foo", "bar"}}

Policies == {"labels", "annotations"}

\* the payloads handed to validate of either policy
CriteriaRequests ==
    {[policy |-> pl, payload_ok |-> FALSE,
      request |-> [object |-> JsonNull], settings |-> ContainsAnyOf({})] : pl \in Policies}
      \cup {[policy |-> pl, payload_ok |-> TRUE,
             request |-> [object |-> o], settings |-> st] :
              pl \in Policies, o \in AdmissionObjects, st \in CriteriaSettings}

InitCriteria ==
    /\ WebhookPolicyIdle
    /\ request \in CriteriaRequests
    /\ pc = "validate"
    /\ response = NoResponse
    /\ earlier = None
    /\ resource = None
    /\ extracted = {}

\* lib.rs:46-47 (48-49)  ValidationRequest::new(payload)? fails
CriteriaPayloadError ==
    /\ pc = "validate"
    /\ ~request.payload_ok
    /\ response' = ErrorResult
    /\ pc' = "done"
    /\ UNCHANGED <<earlier, request, services, webhook_svcs_by_namespace, pending, current,
                   svcs_exposed_by_ingress, exposed_services_being_used, calls,
                   detection, listed, resource, extracted>>

\* labels-policy lib.rs:48-52: the label keys do not satisfy the settings
LabelsReject ==
    /\ pc = "validate"
    /\ request.payload_ok
    /\ request.policy = "labels"
    /\ extracted' = get_resource_label_keys(request)
    /\ validate_labels(request.settings, extracted') # None
    /\ response' =
         reject_request(Join(Unwrap(validate_labels(request.settings, extracted')), ", "))
    /\ pc' = "done"
    /\ UNCHANGED <<earlier, request, services, webhook_svcs_by_namespace, pending, current,
                   svcs_exposed_by_ingress, exposed_services_being_used, calls,
                   detection, listed, resource>>

\* labels-policy lib.rs:48-53
LabelsAccept ==
    /\ pc = "validate"
    /\ request.payload_ok
    /\ request.policy = "labels"
    /\ extracted' = get_resource_label_keys(request)
    /\ validate_labels(request.settings, extracted') = None
    /\ response' = accept_request
    /\ pc' = "done"
    /\ UNCHANGED <<earlier, request, services, webhook_svcs_by_namespace, pending, current,
                   svcs_exposed_by_ingress, exposed_services_being_used, calls,
                   detection, listed, resource>>

\* annotations-policy lib.rs:50-54: the annotation keys do not satisfy the settings
AnnotationsReject ==
    /\ pc = "validate"
    /\ request.payload_ok
    /\ request.policy = "annotations"
    /\ extracted' = get_resource_annotation_keys(request)
    /\ validate_annotations(request.settings, extracted') # None
    /\ response' =
         reject_request(Join(Unwrap(validate_annotations(request.settings, extracted')), ", "))
    /\ pc' = "done"
    /\ UNCHANGED <<earlier, request, services, webhook_svcs_by_namespace, pending, current,
                   svcs_exposed_by_ingress, exposed_services_being_used, calls,
                   detection, listed, resource>>

\* annotations-policy lib.rs:50-55
AnnotationsAccept ==
    /\ pc = "validate"
    /\ request.payload_ok
    /\ request.policy = "annotations"
    /\ extracted' = get_resource_annotation_keys(request)
    /\ validate_annotations(request.settings, extracted') = None
    /\ response' = accept_request
    /\ pc' = "done"
    /\ UNCHANGED <<earlier, request, services, webhook_svcs_by_namespace, pending, current,
                   svcs_exposed_by_ingress, exposed_services_being_used, calls,
                   detection, listed, resource>>

NextCriteria ==
    \/ CriteriaPayloadError
    \/ LabelsReject
    \/ LabelsAccept
    \/ AnnotationsReject
    \/ AnnotationsAccept

SpecCriteria == InitCriteria /\ [][NextCriteria]_vars

(***************************************************************************)
(* Properties of the labels policy and of the annotations policy           *)
(***************************************************************************)
\* the member of metadata the policy at hand reads
KeyField == IF request.policy = "labels" THEN "labels" ELSE "annotations"

\* the keys of that member, if the object has it and it is a map
FieldKeys ==
    LET o == request.request.object
    IN  IF /\ o.t = "object"
           /\ "metadata" \in DOMAIN o.members
           /\ o.members["metadata"].t = "object"
           /\ KeyField \in DOMAIN o.members["metadata"].members
           /\ o.members["metadata"].members[KeyField].t = "object"
          THEN DOMAIN o.members["metadata"].members[KeyField].members
          ELSE {}

\* C17: the keys either policy extracts are exactly the keys of metadata.labels
\* (metadata.annotations), none when metadata or the member is absent or no
\* object; the request is rejected exactly when validate_values reports an error
\* for these keys and the settings, and accepted otherwise.
C17_KeysAndDecision ==
    (pc = "done" /\ request.payload_ok) =>
        /\ extracted = FieldKeys
        /\ response.status \in {"accept", "reject"}
        /\ response.status = "reject" <=>
             validate_values(request.settings, FieldKeys) # None

\* a resource with both members: labels foo and baz satisfy containsAnyOf {foo}
\* although its annotations do not
C17_Witness ==
    /\ pc = "done"
    /\ request.policy = "labels"
    /\ request.settings = ContainsAnyOf({"foo"})
    /\ extracted = {"foo", "baz"}
    /\ get_resource_annotation_keys(request) = {"bar"}
    /\ response = accept_request

(***************************************************************************)
(* The grouping of the targets, and the order of the queries               *)
(***************************************************************************)
\* the detector holds its map: from its start until it returns Ok
MapBuilt == detection \in {"running", "ok"}

\* C18: the map from namespace to targets is a partition of the target set: its
\* keys are the namespaces of the targets, the group of a key holds the targets of
\* that namespace and is not empty, every target is in one group only, and the
\* groups together are the target set.
C18_GroupingIsPartition ==
    MapBuilt =>
        /\ DOMAIN webhook_svcs_by_namespace = TargetNamespaces
        /\ \A ns \in DOMAIN webhook_svcs_by_namespace :
             /\ webhook_svcs_by_namespace[ns] # {}
             /\ webhook_svcs_by_namespace[ns] = TargetsIn(ns)
        /\ \A t \in services :
             {ns \in DOMAIN webhook_svcs_by_namespace : t \in webhook_svcs_by_namespace[ns]}
                 = {t.namespace}
        /\ UNION {webhook_svcs_by_namespace[ns] : ns \in DOMAIN webhook_svcs_by_namespace}
             = services

\* two targets of one namespace share a group
C18_Witness ==
    /\ MapBuilt
    /\ Cardinality(services) = 2
    /\ \E ns \in DOMAIN webhook_svcs_by_namespace :
         Cardinality(webhook_svcs_by_namespace[ns]) = 2

\* the positions in the log of the queries that failed
FailedCalls == {i \in DOMAIN calls : ~calls[i].response.ok}

\* C19: a failed query is the last query of the evaluation: it is not repeated, the
\* Services of a namespace are not listed after its Ingress query failed, the
\* namespaces not yet visited are not queried, and the loop is left; and no
\* (namespace, kind) is queried twice.
C19_NoQueryAfterFailure ==
    /\ \A i \in FailedCalls :
         /\ i = Len(calls)
         /\ pc = "done"
         /\ pending = {}
         /\ calls[i].request.kind = Ingress_KIND =>
              CallsOf(calls[i].request.namespace, Service_KIND) = {}
    /\ \A i, j \in DOMAIN calls :
         ( /\ calls[i].request.namespace = calls[j].request.namespace
           /\ calls[i].request.kind = calls[j].request.kind ) => i = j

\* targets in two namespaces, and the first query of all fails: one query only
C19_Witness ==
    /\ Cardinality(TargetNamespaces) = 2
    /\ Len(calls) = 1
    /\ FailedCalls = {1}
    /\ calls[1].request.kind = Ingress_KIND
    /\ QueriedNamespaces # TargetNamespaces
    /\ pc = "done"

(***************************************************************************)
(* Partial resources                                                       *)
(***************************************************************************)
\* an Ingress without spec, or with a spec naming no default backend service and
\* no rules
IngressWithoutBackends(x) ==
    \/ x.spec = None
    \/ /\ x.spec[1].rules = None
       /\ \/ x.spec[1].default_backend = None
          \/ x.spec[1].default_backend[1].service = None

\* a Service without spec, or without ports
ServiceWithoutPorts(y) ==
    \/ y.spec = None
    \/ y.spec[1].ports = None
    \/ y.spec[1].ports = Some(<<>>)

\* the candidates of a namespace that its complete resources give
CompleteCandidates(ns) ==
    UNION {Ingress_get_services(x) :
             x \in {z \in ListedItems(ns, "Ingress") : ~IngressWithoutBackends(z)}}
      \cup UNION {Service_get_services(y) :
                    y \in {z \in ListedItems(ns, "Service") :
                             ExposingType(z) /\ ~ServiceWithoutPorts(z)}}

\* C20: a listed Ingress without spec or without backends and a listed Service
\* without spec or without ports give no identity; they make no query fail, and
\* the exposed set is the one the other listed resources give.
C20_PartialResourcesContributeNothing ==
    /\ \A x \in AllListed("Ingress") :
         IngressWithoutBackends(x) => Ingress_get_services(x) = {}
    /\ \A y \in AllListed("Service") :
         ServiceWithoutPorts(y) => Service_get_services(y) = {}
    /\ detection = "err" => QueryFailed
    /\ (pc = "done" /\ ~QueryFailed /\ services # {}) => detection = "ok"
    /\ detection = "ok" =>
         exposed_services_being_used =
             UNION {CompleteCandidates(ns) \cap TargetsIn(ns) : ns \in TargetNamespaces}

\* an Ingress without spec and a NodePort Service with its ports in one namespace:
\* the Service alone exposes the target; or a Service without ports next to an
\* Ingress that exposes it
C20_Witness ==
    /\ detection = "ok"
    /\ exposed_services_being_used # {}
    /\ \E ns \in TargetNamespaces :
         \/ \E x \in ListedItems(ns, "Ingress") : x.spec = None
         \/ \E y \in ListedItems(ns, "Service") :
              ExposingType(y) /\ y.spec[1].ports = None

(***************************************************************************)
(* The list queries                                                        *)
(***************************************************************************)
\* the identities the answer to the i-th query gives
CandidatesOfCall(i) ==
    LET items == calls[i].response.items
    IN  IF calls[i].request.kind = "Ingress"
          THEN UNION {Ingress_get_services(items[k]) : k \in DOMAIN items}
          ELSE UNION {Service_get_services(items[k]) :
                        k \in {j \in DOMAIN items : ExposingType(items[j])}}

\* C21: every list query names a namespace of the targets, networking.k8s.io/v1
\* Ingress or v1 Service, and no label or field selector; while a namespace is
\* being processed its queries name that namespace; and what a query for a
\* namespace returns is intersected with the targets of that namespace only.
C21_QueriesNameTheGroup ==
    /\ \A i \in DOMAIN calls :
         /\ calls[i].request.namespace \in TargetNamespaces
         /\ <<calls[i].request.api_version, calls[i].request.kind>>
              \in {<<"networking.k8s.io/v1", "Ingress">>, <<"v1", "Service">>}
         /\ calls[i].request.label_selector = None
         /\ calls[i].request.field_selector = None
    /\ pc = "service" =>
         /\ calls[Len(calls)].request.namespace = current[1]
         /\ svcs_exposed_by_ingress =
              CandidatesOfCall(Len(calls)) \cap TargetsIn(current[1])
    /\ (pc = "ingress" /\ calls # <<>>) =>
         calls[Len(calls)].request.namespace = calls[Len(calls) - 1].request.namespace
    /\ exposed_services_being_used \subseteq
         UNION {CandidatesOfCall(i) \cap TargetsIn(calls[i].request.namespace) :
                  i \in DOMAIN calls}

\* targets in two namespaces, four queries, and the Ingresses of the second
\* namespace name the service of the first: nothing of the first is exposed
C21_Witness ==
    /\ detection = "ok"
    /\ Len(calls) = 4
    /\ calls[1].request.namespace # calls[3].request.namespace
    /\ \E t \in TargetsIn(calls[1].request.namespace) :
          [t EXCEPT !.namespace = calls[3].request.namespace] \in CandidatesOfCall(3)
    /\ exposed_services_being_used \cap TargetsIn(calls[1].request.namespace) = {}

(***************************************************************************)
(* Decode errors                                                           *)
(***************************************************************************)
\* validate is about to read a payload that is no validation request, or a webhook
\* configuration object that cannot be decoded as its kind
DecodeFails ==
    /\ pc = "validate"
    /\ \/ ~request.payload_ok
       \/ /\ request.kind \in WebhookKinds
          /\ ~request.object[1].decodable

\* C22: the step validate takes on a payload or a webhook configuration it cannot
\* decode ends the evaluation with an error: no accept, no reject, the detector
\* not entered and no query issued.
C22_DecodeErrorIsFatal ==
    [][DecodeFails =>
         /\ pc' = "done"
         /\ response'.status = "error"
         /\ detection' = "none"
         /\ services' = {}
         /\ calls' = <<>>]_vars

\* a mutating webhook configuration that could not be decoded
C22_Witness ==
    /\ pc = "done"
    /\ request.payload_ok
    /\ request.kind = MutatingWebhookConfiguration_KIND
    /\ request.object = None
    /\ detection = "none"
    /\ response = ErrorResult
    /\ calls = <<>>

(***************************************************************************)
(* Resources without metadata.namespace                                    *)
(***************************************************************************)
NoNamespace(x) == x.metadata.namespace = None

\* the resources the host listed for the namespace of t that give the identity t
\* up to its namespace: Ingresses, and NodePort/LoadBalancer Services
ListedNaming(t) ==
    {x \in ListedItems(t.namespace, "Ingress") :
        \E c \in Ingress_get_services(x) :
            c.name = t.name /\ c.port_number = t.port_number}
      \cup {y \in ListedItems(t.namespace, "Service") :
              /\ ExposingType(y)
              /\ \E c \in Service_get_services(y) :
                    c.name = t.name /\ c.port_number = t.port_number}

\* C23: the identities of a listed Ingress or Service without metadata.namespace
\* have the empty string as namespace; a target that the answers for its namespace
\* name through such resources only is not exposed.
C23_AbsentNamespaceIsEmptyString ==
    /\ \A x \in AllListed("Ingress") :
         NoNamespace(x) => \A c \in Ingress_get_services(x) : c.namespace = ""
    /\ \A y \in AllListed("Service") :
         NoNamespace(y) => \A c \in Service_get_services(y) : c.namespace = ""
    /\ \A t \in services :
         (t.namespace # "" /\ \A x \in ListedNaming(t) : NoNamespace(x))
            => t \notin exposed_services_being_used

\* the answers for the namespace of a target name it, through an Ingress and a
\* Service without metadata.namespace: the request is accepted
C23_Witness ==
    /\ detection = "ok"
    /\ \E t \in services :
         /\ \E x \in ListedItems(t.namespace, "Ingress") :
               x \in ListedNaming(t) /\ NoNamespace(x)
         /\ \E y \in ListedItems(t.namespace, "Service") :
               y \in ListedNaming(t) /\ NoNamespace(y)
    /\ response = accept_request

(***************************************************************************)
(* The order of the queries                                                *)
(***************************************************************************)
\* the exposed set as a function of the answers, whatever their order in the log
ExposedBy(answers) ==
    UNION {(IF a.request.kind = "Ingress"
              THEN UNION {Ingress_get_services(a.response.items[k]) :
                            k \in DOMAIN a.response.items}
              ELSE UNION {Service_get_services(a.response.items[k]) :
                            k \in {j \in DOMAIN a.response.items :
                                     ExposingType(a.response.items[j])}})
             \cap TargetsIn(a.request.namespace) :
           a \in answers}

\* C24: the queries come in pairs: the Ingress query of a namespace, then, once it
\* is answered, the Service query of the same namespace, and only then the Ingress
\* query of a namespace not queried before; on success the exposed set is a
\* function of the set of answers, so it is the same for every visiting order.
C24_IngressThenServicePerNamespace ==
    /\ \A i \in DOMAIN calls :
         /\ i % 2 = 1 =>
              /\ calls[i].request.kind = "Ingress"
              /\ \A j \in 1..(i - 1) :
                   calls[j].request.namespace # calls[i].request.namespace
         /\ i % 2 = 0 =>
              /\ calls[i].request.kind = "Service"
              /\ calls[i].request.namespace = calls[i - 1].request.namespace
              /\ calls[i - 1].response.ok
    /\ pc = "service" <=> (detection = "running" /\ Len(calls) % 2 = 1)
    /\ detection = "ok" =>
         exposed_services_being_used = ExposedBy({calls[i] : i \in DOMAIN calls})

\* namespace b visited before namespace a, a target exposed in each
C24_Witness ==
    /\ detection = "ok"
    /\ Len(calls) = 4
    /\ calls[1].request.namespace = "b"
    /\ calls[3].request.namespace = "a"
    /\ exposed_services_being_used \cap TargetsIn("a") # {}
    /\ exposed_services_being_used \cap TargetsIn("b") # {}

(***************************************************************************)
(* enforce_ndots on its own (pod-ndots-policy lib.rs:41-86), applied to a  *)
(* pod spec and then to its own result                                     *)
(***************************************************************************)
EnforceArguments ==
    {[settings |-> st, podspec |-> ps] : st \in NdotsSettings, ps \in PodSpecs}

InitEnforce ==
    /\ WebhookPolicyIdle
    /\ request = NoRequest
    /\ response = NoResponse
    /\ pc = "enforce"
    /\ resource \in {Some(arg) : arg \in EnforceArguments}
    /\ extracted = None
    /\ earlier = None

\* enforce_ndots(settings, &podspec)
EnforceOnce ==
    /\ pc = "enforce"
    /\ extracted' = Some(enforce_ndots(Unwrap(resource).settings, Unwrap(resource).podspec))
    /\ pc' = "enforced"
    /\ UNCHANGED <<earlier, request, services, webhook_svcs_by_namespace, pending, current,
                   svcs_exposed_by_ingress, exposed_services_being_used, calls,
                   detection, listed, response, resource>>

\* enforce_ndots(settings, &podspec_patched); the first result is kept in `earlier`
EnforceAgain ==
    /\ pc = "enforced"
    /\ earlier' = extracted
    /\ extracted' = Some(enforce_ndots(Unwrap(resource).settings, Unwrap(extracted)))
    /\ pc' = "enforced twice"
    /\ UNCHANGED <<request, services, webhook_svcs_by_namespace, pending, current,
                   svcs_exposed_by_ingress, exposed_services_being_used, calls,
                   detection, listed, response, resource>>

NextEnforce == EnforceOnce \/ EnforceAgain

SpecEnforce == InitEnforce /\ [][NextEnforce]_vars

\* the options of the pod spec enforce_ndots was first applied to
FirstOptions ==
    IF resource[1].podspec.dns_config = None
         \/ resource[1].podspec.dns_config[1].options = None
      THEN <<>>
      ELSE resource[1].podspec.dns_config[1].options[1]

\* C25: enforce_ndots applied to its own result returns that result, for every
\* pod spec and every settings value.
C25_EnforceNdotsIdempotent ==
    pc = "enforced twice" => extracted = earlier

\* a pod spec with two options named ndots, of different values, neither the
\* configured one
C25_Witness ==
    /\ pc = "enforced twice"
    /\ Len(FirstOptions) = 2
    /\ FirstOptions[1].name = Some("ndots")
    /\ FirstOptions[2].name = Some("ndots")
    /\ FirstOptions[1].value # FirstOptions[2].value
    /\ earlier[1] # resource[1].podspec
    /\ extracted = earlier

====
